---- MODULE Spec2Model ----
(***************************************************************************)
(* Camera-trap detection pipeline: process_image (handler.py) run against  *)
(* the durable store (database.py, PostgreSQL tables images, detections,   *)
(* species) and the tracking store (DynamoDB table, update_dynamodb_status).*)
(*                                                                         *)
(* Every call to an external collaborator (S3, the two models, a database  *)
(* transaction, the DynamoDB put) is one step and either returns or        *)
(* raises.  A database call that raises rolls its transaction back         *)
(* (get_cursor), so it leaves the tables unchanged.  The raising outcome   *)
(* covers every reason cursor.execute can raise, a named placeholder       *)
(* missing from the parameter dict included.                               *)
(*                                                                         *)
(* Confidences are integers in hundredths; normalized box coordinates are  *)
(* integers in 1/BoxScale.  Timestamps (updated_at, processed_at) are not  *)
(* modelled.  A nullable column is <<>> (NULL) or <<v>>.                   *)
(***************************************************************************)
EXTENDS Integers, Sequences, FiniteSets, TLC

\* ---- bounds of the model ----
MaxRuns == 2
MaxBoxes == 2
MaxPreds == 2
MaxRows == 2

\* ---- program constants ----
SPECIESNET_THRESHOLD == 50
REVIEW_CUTOFF == 80
PadPercent == 10
BoxScale == 16
QualityScale == 10000

Procs == {1}
Workers == {1, 2}
Handles == <<"megadetector", "speciesnet", "db_manager">>
Keys == {"proj/BR/acme/cam07/2024-01-01/a.jpg", "onlyfile.jpg"}

None == << >>
Some(v) == << v >>
IsSome(o) == Len(o) = 1
Val(o) == o[1]

\* ---- inputs the environment supplies ----
\* The objects S3 can return.  decodable: PIL opens and decodes the bytes;
\* width, height: what the header says; datetime: the EXIF DateTime tag
\* as its numeric fields
\* (absent, well formed, or rejected by '%Y:%m:%d %H:%M:%S'); mean, variance:
\* mean grey level in 1/10000 of full scale and variance of the Laplacian.
ImageFiles ==
    { [data |-> <<1, 2>>, decodable |-> TRUE, width |-> 20, height |-> 10,
       datetime |-> << <<2024, 1, 1, 6, 30, 0>> >>, mean |-> 4000, variance |-> 120],
      [data |-> <<2, 1, 3>>, decodable |-> TRUE, width |-> 8, height |-> 8,
       datetime |-> << <<2024, 13, 1, 6, 30, 0>> >>, mean |-> 9000, variance |-> 800],
      [data |-> <<3, 3>>, decodable |-> FALSE, width |-> 0, height |-> 0,
       datetime |-> << >>, mean |-> 0, variance |-> 0] }

\* calculate_file_hash: SHA-256 is collision free on the modelled byte
\* strings; the digest is the positional encoding of the bytes.
RECURSIVE Digest(_)
Digest(bytes) ==
    IF bytes = << >> THEN 1
    ELSE (Digest(SubSeq(bytes, 1, Len(bytes) - 1)) * 4 + bytes[Len(bytes)]) % 65536

calculate_file_hash(bytes) == Digest(bytes)

SpeciesNames == {"Ursus arctos", "Canis lupus"}
CommonName(sn) == IF sn = "Ursus arctos" THEN "Brown Bear" ELSE "Gray Wolf"

Prediction(sn, c) ==
    [scientific_name |-> sn, common_name |-> CommonName(sn), confidence |-> c]

Truncate(s, n) == IF Len(s) <= n THEN s ELSE SubSeq(s, 1, n)

Box(category, confidence, bbox, out) ==
    [category |-> category, confidence |-> confidence, bbox |-> bbox,
     crop_preds |-> Truncate(out, MaxPreds)]

\* Boxes MegaDetector.detect can return: bbox is <<x, y, width, height>>;
\* crop_preds is what the classifier model computes for the crop of that
\* box (both models are deterministic functions of the pixels).
Boxes ==
    { Box("animal", 90, <<4, 4, 8, 8>>,
          << Prediction("Ursus arctos", 70), Prediction("Canis lupus", 20) >>),
      Box("animal", 90, <<0, 0, 8, 16>>,
          << Prediction("Ursus arctos", 20), Prediction("Canis lupus", 20) >>),
      Box("animal", 90, <<8, 8, 1, 4>>,
          << Prediction("Canis lupus", 50), Prediction("Ursus arctos", 50) >>),
      Box("person", 90, <<4, 4, 8, 8>>, << >>),
      Box("vehicle", 70, <<0, 0, 4, 4>>, << >>),
      Box("unknown", 90, <<0, 0, 4, 4>>, << >>) }

SeqsUpTo(S, n) == UNION { [1..m -> S] : m \in 0..n }

DetectorOutputs == SeqsUpTo(Boxes, MaxBoxes)

VARIABLES
    images,      \* durable store: rows of table images
    detections,  \* durable store: rows of table detections
    species,     \* durable store: rows of table species
    tracking,    \* tracking store: file_key -> item
    run,         \* per worker: locals of the current lambda_handler call
    runs,        \* number of notifications delivered so far
    handles,     \* per worker: how many of the module globals megadetector,
                 \* speciesnet, db_manager are initialised (in that order)
    prov,        \* history: per detection id, what its run saw when inserting it
    upserts,     \* history: the insert_image calls that returned
    returned,    \* history: key, statusCode and boxes of the calls that returned
    unit         \* a pure function evaluated on its own: arguments and result

vars == <<images, detections, species, tracking, run, runs, handles, prov,
          upserts, returned, unit>>

\* ---- pure helpers ----
Max(a, b) == IF a >= b THEN a ELSE b
Min(a, b) == IF a <= b THEN a ELSE b

NextId(rows) == IF rows = {} THEN 1
                ELSE 1 + (CHOOSE m \in { r.id : r \in rows } :
                             \A r \in rows : r.id <= m)

\* crop_detection without the max/min against the image bounds.
PaddedCrop_unclamped(bbox, img_width, img_height) ==
    LET x == (bbox[1] * img_width) \div BoxScale
        y == (bbox[2] * img_height) \div BoxScale
        width == (bbox[3] * img_width) \div BoxScale
        height == (bbox[4] * img_height) \div BoxScale
        pad_x == (width * PadPercent) \div 100
        pad_y == (height * PadPercent) \div 100
    IN [left |-> x - pad_x,
        top |-> y - pad_y,
        right |-> x + width + pad_x,
        bottom |-> y + height + pad_y]

\* MegaDetector.crop_detection, the rectangle handed to Image.crop.
\* int() truncates; all operands are non-negative.
PaddedCrop(bbox, img_width, img_height) ==
    LET x == (bbox[1] * img_width) \div BoxScale
        y == (bbox[2] * img_height) \div BoxScale
        width == (bbox[3] * img_width) \div BoxScale
        height == (bbox[4] * img_height) \div BoxScale
        pad_x == (width * PadPercent) \div 100
        pad_y == (height * PadPercent) \div 100
    IN [left |-> Max(0, x - pad_x),
        top |-> Max(0, y - pad_y),
        right |-> Min(img_width, x + width + pad_x),
        bottom |-> Min(img_height, y + height + pad_y)]

Degenerate(rect) == rect.right <= rect.left \/ rect.bottom <= rect.top

\* The filter with a strict comparison: a prediction exactly at the threshold
\* is dropped.
FilterByThreshold_strict(predictions) ==
    LET F[i \in 0..Len(predictions)] ==
            IF i = 0 THEN << >>
            ELSE IF predictions[i].confidence > SPECIESNET_THRESHOLD
                 THEN Append(F[i - 1], predictions[i]) ELSE F[i - 1]
    IN F[Len(predictions)]

\* SpeciesNet.classify, the threshold filter over the top-k predictions.
FilterByThreshold(predictions) ==
    LET F[i \in 0..Len(predictions)] ==
            IF i = 0 THEN << >>
            ELSE IF predictions[i].confidence >= SPECIESNET_THRESHOLD
                 THEN Append(F[i - 1], predictions[i]) ELSE F[i - 1]
    IN F[Len(predictions)]

\* ---- metadata derivation (utils.py) ----
\* datetime.strptime(str(value), '%Y:%m:%d %H:%M:%S'): six fields in range.
ValidDateTime(t) ==
    /\ Len(t) = 6
    /\ t[2] \in 1..12 /\ t[3] \in 1..31
    /\ t[4] \in 0..23 /\ t[5] \in 0..59 /\ t[6] \in 0..61

EmptyExif == [width |-> None, height |-> None, captured_at |-> None]

\* extract_exif_data without the outer try: the header fields are reported
\* whether or not the bytes decode.
extract_exif_data_unguarded(file) ==
    [width |-> Some(file.width), height |-> Some(file.height),
     captured_at |-> IF IsSome(file.datetime) /\ ValidDateTime(Val(file.datetime))
                     THEN file.datetime ELSE None]

\* extract_exif_data: {} when anything raises; a DateTime tag strptime
\* rejects is skipped.
extract_exif_data(file) ==
    IF ~file.decodable THEN EmptyExif
    ELSE [width |-> Some(file.width), height |-> Some(file.height),
          captured_at |-> IF IsSome(file.datetime) /\ ValidDateTime(Val(file.datetime))
                          THEN file.datetime ELSE None]

NeutralQuality == [brightness |-> QualityScale \div 2,
                   sharpness |-> QualityScale \div 2,
                   overall |-> QualityScale \div 2]

\* round(x, 4) of a non-negative fraction num/den, in 1/QualityScale once the
\* caller has scaled num.
Round(num, den) == (2 * num + den) \div (2 * den)

\* calculate_image_quality from the two statistics on: brightness is
\* b_num/b_den of full scale and the variance of the Laplacian is
\* v_num/v_den.  The fractions are kept exact and only the three reported
\* values are rounded, each in 1/QualityScale.
quality_metrics(b_num, b_den, v_num, v_den) ==
    LET s_den == 500 * v_den
        s_num == Min(v_num, s_den)
        deviation == IF 2 * b_num >= b_den THEN 2 * b_num - b_den
                     ELSE b_den - 2 * b_num
        q_num == b_den - deviation
        weighted_brightness == 3 * (QualityScale \div 10) * q_num
        weighted_sharpness == 7 * (QualityScale \div 10) * s_num
        rest == (weighted_brightness % b_den) * s_den
                    + (weighted_sharpness % s_den) * b_den
    IN [brightness |-> Round(QualityScale * b_num, b_den),
        sharpness |-> Round((QualityScale \div 500) * s_num, v_den),
        overall |-> weighted_brightness \div b_den + weighted_sharpness \div s_den
                        + Round(rest, b_den * s_den)]

\* calculate_image_quality, in 1/QualityScale: the neutral triple when the
\* bytes do not decode.
calculate_image_quality(file) ==
    IF ~file.decodable THEN NeutralQuality
    ELSE quality_metrics(file.mean, QualityScale, file.variance, 1)

\* ---- the two stores ----
TrackItem(status, meta) ==
    [processing_status |-> status,
     image_id |-> meta.image_id,
     detection_count |-> meta.detection_count,
     has_animals |-> meta.has_animals,
     error_message |-> meta.error_message]

NoMeta == [image_id |-> None, detection_count |-> None,
           has_animals |-> None, error_message |-> None]

\* update_dynamodb_status: put_item replaces the item; a failure is logged
\* and swallowed.
update_dynamodb_status(tr, s3_key, status, meta, ok) ==
    IF ok THEN [tr EXCEPT ![s3_key] = Some(TrackItem(status, meta))] ELSE tr

\* insert_image without the ON CONFLICT clause taking effect: always a new row.
insert_image_no_conflict(rows, image_data) ==
    [rows |-> rows \cup { [id |-> NextId(rows),
                           s3_key |-> image_data.s3_key,
                           file_size |-> image_data.file_size,
                           file_hash |-> image_data.file_hash,
                           width |-> image_data.width,
                           height |-> image_data.height,
                           captured_at |-> image_data.captured_at,
                           quality_score |-> image_data.quality_score,
                           processing_status |-> image_data.processing_status,
                           error_message |-> None] },
     id |-> NextId(rows)]

\* insert_image whose ON CONFLICT branch overwrites the row with the new
\* values (SET file_hash = EXCLUDED.file_hash, ...), keeping the id.
insert_image_overwrite(rows, image_data) ==
    IF \E r \in rows : r.s3_key = image_data.s3_key
    THEN LET old == CHOOSE r \in rows : r.s3_key = image_data.s3_key
         IN [rows |-> (rows \ {old}) \cup
                         { [id |-> old.id,
                            s3_key |-> image_data.s3_key,
                            file_size |-> image_data.file_size,
                            file_hash |-> image_data.file_hash,
                            width |-> image_data.width,
                            height |-> image_data.height,
                            captured_at |-> image_data.captured_at,
                            quality_score |-> image_data.quality_score,
                            processing_status |-> image_data.processing_status,
                            error_message |-> None] },
             id |-> old.id]
    ELSE insert_image_no_conflict(rows, image_data)

\* insert_image whose ON CONFLICT branch refreshes the content columns
\* (SET file_hash = EXCLUDED.file_hash, file_size = EXCLUDED.file_size).
insert_image_refresh_content(rows, image_data) ==
    IF \E r \in rows : r.s3_key = image_data.s3_key
    THEN LET old == CHOOSE r \in rows : r.s3_key = image_data.s3_key
         IN [rows |-> (rows \ {old}) \cup
                         { [old EXCEPT !.file_hash = image_data.file_hash,
                                       !.file_size = image_data.file_size] },
             id |-> old.id]
    ELSE insert_image_no_conflict(rows, image_data)

\* DatabaseManager.insert_image: INSERT ... ON CONFLICT (s3_key) DO UPDATE
\* SET updated_at = NOW() RETURNING id.  Yields the table and the id.
insert_image(rows, image_data) ==
    IF \E r \in rows : r.s3_key = image_data.s3_key
    THEN [rows |-> rows,
          id |-> (CHOOSE r \in rows : r.s3_key = image_data.s3_key).id]
    ELSE [rows |-> rows \cup { [id |-> NextId(rows),
                                s3_key |-> image_data.s3_key,
                                file_size |-> image_data.file_size,
                                file_hash |-> image_data.file_hash,
                                width |-> image_data.width,
                                height |-> image_data.height,
                                captured_at |-> image_data.captured_at,
                                quality_score |-> image_data.quality_score,
                                processing_status |-> image_data.processing_status,
                                error_message |-> None] },
          id |-> NextId(rows)]

\* update_image_status that sets the status and leaves error_message alone.
update_image_status_no_message(rows, image_id, status, error_message) ==
    { IF r.id = image_id
      THEN [r EXCEPT !.processing_status = status]
      ELSE r : r \in rows }

\* update_image_status that writes error_message only when one is given
\* (SET error_message = COALESCE(%s, error_message)).
update_image_status_keep_message(rows, image_id, status, error_message) ==
    { IF r.id = image_id
      THEN [r EXCEPT !.processing_status = status,
                     !.error_message = IF error_message = None THEN @
                                       ELSE error_message]
      ELSE r : r \in rows }

\* DatabaseManager.update_image_status
update_image_status(rows, image_id, status, error_message) ==
    { IF r.id = image_id
      THEN [r EXCEPT !.processing_status = status,
                     !.error_message = error_message]
      ELSE r : r \in rows }

\* insert_detection that stores a row only when a species was assigned.
insert_detection_classified_only(rows, detection_data) ==
    IF detection_data.species_id = None THEN rows
    ELSE rows \cup { [id |-> NextId(rows),
                       image_id |-> detection_data.image_id,
                       species_id |-> detection_data.species_id,
                       detection_type |-> detection_data.detection_type,
                       bbox |-> detection_data.bbox,
                       megadetector_confidence |-> detection_data.megadetector_confidence,
                       speciesnet_confidence |-> detection_data.speciesnet_confidence,
                       overall_confidence |-> detection_data.overall_confidence,
                       species_top5 |-> detection_data.species_top5,
                       needs_review |-> detection_data.needs_review] }

\* insert_detection that skips a box the image already has a row for.
insert_detection_deduplicating(rows, detection_data) ==
    IF \E r \in rows : /\ r.image_id = detection_data.image_id
                        /\ r.detection_type = detection_data.detection_type
                        /\ r.bbox = detection_data.bbox
    THEN rows
    ELSE rows \cup { [id |-> NextId(rows),
                       image_id |-> detection_data.image_id,
                       species_id |-> detection_data.species_id,
                       detection_type |-> detection_data.detection_type,
                       bbox |-> detection_data.bbox,
                       megadetector_confidence |-> detection_data.megadetector_confidence,
                       speciesnet_confidence |-> detection_data.speciesnet_confidence,
                       overall_confidence |-> detection_data.overall_confidence,
                       species_top5 |-> detection_data.species_top5,
                       needs_review |-> detection_data.needs_review] }

\* DatabaseManager.insert_detection
insert_detection(rows, detection_data) ==
    rows \cup { [id |-> NextId(rows),
                  image_id |-> detection_data.image_id,
                  species_id |-> detection_data.species_id,
                  detection_type |-> detection_data.detection_type,
                  bbox |-> detection_data.bbox,
                  megadetector_confidence |-> detection_data.megadetector_confidence,
                  speciesnet_confidence |-> detection_data.speciesnet_confidence,
                  overall_confidence |-> detection_data.overall_confidence,
                  species_top5 |-> detection_data.species_top5,
                  needs_review |-> detection_data.needs_review] }

\* ---- process_image, one step per external call ----
IdleRun ==
    [pc |-> "idle", event |-> << >>, s3_key |-> "", image |-> None,
     image_id |-> None,
     detections |-> << >>, idx |-> 1, rect |-> None, raw |-> None,
     species_predictions |-> << >>, species_id |-> None,
     err |-> None, statusCode |-> 0, inserted |-> << >>, log |-> << >>]

Call(op, arg, ok) == [op |-> op, arg |-> arg, ok |-> ok]

\* A handler that logs the exception and tries the failed call again.
Raise_and_retry(r, op, msg) ==
    [r EXCEPT !.err = Some(msg),
              !.log = Append(r.log, Call(op, msg, FALSE))]

\* Where a raised exception lands: the except block updates the durable
\* store only when image_id is bound ('image_id' in locals()).
Raise(r, op, msg) ==
    [r EXCEPT !.err = Some(msg),
              !.pc = IF IsSome(r.image_id) THEN "except_durable" ELSE "except_track",
              !.log = Append(r.log, Call(op, msg, FALSE))]

\* The loop without the category test: every box is cropped and classified.
LoopPc_every_box(dets, idx) ==
    IF idx > Len(dets) THEN "update_completed" ELSE "crop"

\* Loop head of `for detection in detections`.
LoopPc(dets, idx) ==
    IF idx > Len(dets) THEN "update_completed"
    ELSE IF dets[idx].category = "animal" THEN "crop"
    ELSE "insert_detection"

\* What a finished call leaves for the record of finished calls: its key,
\* its result and which delivery it served.
Summary(r, code) ==
    [s3_key |-> r.s3_key, statusCode |-> code, delivery |-> runs]

\* Empty stores, no notification delivered, module globals all None.
InitFor(workers, evaluated) ==
    /\ images = {}
    /\ detections = {}
    /\ species = {}
    /\ tracking = [k \in Keys |-> None]
    /\ run = [p \in workers |-> IdleRun]
    /\ runs = 0
    /\ handles = [p \in workers |-> 0]
    /\ prov = {}
    /\ upserts = {}
    /\ returned = << >>
    /\ unit = evaluated

Init == InitFor(Procs, None)

\* The events the trigger can deliver: Records holding one record with its
\* object key, or holding none.
Events == { << k >> : k \in Keys } \cup { << >> }

\* The trigger invokes lambda_handler with an event.
InvokeWith(p, events) ==
    /\ run[p].pc \in {"idle", "done", "propagated"}
    /\ runs < MaxRuns
    /\ \E e \in events :
          run' = [run EXCEPT ![p] =
                     [IdleRun EXCEPT !.pc = "init_models", !.event = e]]
    /\ runs' = runs + 1
    /\ UNCHANGED <<images, detections, species, tracking, prov, upserts,
                   handles, returned, unit>>

Invoke(p) == InvokeWith(p, Events)

\* init_models(), called outside lambda_handler's try: each global that is
\* still None is constructed in turn, and a constructor that raises lets the
\* exception out of lambda_handler with the earlier globals kept.
InitModels(p) ==
    /\ run[p].pc = "init_models"
    /\ \E n \in handles[p]..Len(Handles) :
          /\ handles' = [handles EXCEPT ![p] = n]
          /\ run' = [run EXCEPT ![p] =
                [@ EXCEPT !.pc = IF n = Len(Handles)
                                 THEN "receive" ELSE "propagated"]]
    /\ UNCHANGED <<images, detections, species, tracking, runs, prov, upserts,
                   returned, unit>>

\* The PROCESSING write without the try inside update_dynamodb_status: a
\* failed put_item raises into process_image's except block.
Receive_unguarded(p) ==
    /\ run[p].pc = "receive"
    /\ \/ /\ run[p].event = << >>
          /\ run' = [run EXCEPT ![p] =
                [@ EXCEPT !.pc = "done", !.statusCode = 500,
                          !.log = << Call("event", "IndexError", FALSE) >>]]
          /\ returned' = Append(returned, Summary(run[p], 500))
          /\ UNCHANGED tracking
       \/ /\ run[p].event # << >>
          /\ \E raised \in BOOLEAN :
                /\ tracking' = update_dynamodb_status(tracking, run[p].event[1],
                                    "PROCESSING", NoMeta, ~raised)
                /\ run' = [run EXCEPT ![p] =
                      [@ EXCEPT !.pc = IF raised THEN "except_track" ELSE "get_object",
                                !.s3_key = run[p].event[1],
                                !.err = IF raised THEN Some("put_item failed") ELSE None,
                                !.log = << Call("track", "PROCESSING", ~raised) >>]]
          /\ UNCHANGED returned
    /\ UNCHANGED <<images, detections, species, runs, prov, upserts, handles, unit>>

\* process_image up to the first external call: the key is read from the
\* event outside the try (an event without a record raises there and
\* lambda_handler answers 500), then update_dynamodb_status(s3_key,
\* 'PROCESSING').
Receive(p) ==
    /\ run[p].pc = "receive"
    /\ \/ /\ run[p].event = << >>
          /\ run' = [run EXCEPT ![p] =
                [@ EXCEPT !.pc = "done", !.statusCode = 500,
                          !.log = << Call("event", "IndexError", FALSE) >>]]
          /\ returned' = Append(returned, Summary(run[p], 500))
          /\ UNCHANGED tracking
       \/ /\ run[p].event # << >>
          /\ \E raised \in BOOLEAN :
                /\ tracking' = update_dynamodb_status(tracking, run[p].event[1],
                                    "PROCESSING", NoMeta, ~raised)
                /\ run' = [run EXCEPT ![p] =
                      [@ EXCEPT !.pc = "get_object", !.s3_key = run[p].event[1],
                                !.log = << Call("track", "PROCESSING", ~raised) >>]]
          /\ UNCHANGED returned
    /\ UNCHANGED <<images, detections, species, runs, prov, upserts, handles, unit>>

\* s3_client.get_object and the local metadata derivation.
GetObjectFrom(p, files) ==
    /\ run[p].pc = "get_object"
    /\ \/ \E f \in files :
             run' = [run EXCEPT ![p] =
                        [@ EXCEPT !.image = Some(f), !.pc = "insert_image",
                                  !.log = Append(@, Call("get_object", "", TRUE))]]
       \/ run' = [run EXCEPT ![p] = Raise(@, "get_object", "NoSuchKey")]
    /\ UNCHANGED <<images, detections, species, tracking, runs, prov, upserts, handles, returned, unit>>

GetObject(p) == GetObjectFrom(p, ImageFiles)

image_record(r) ==
    [s3_key |-> r.s3_key,
     file_size |-> Len(Val(r.image).data),
     file_hash |-> calculate_file_hash(Val(r.image).data),
     width |-> extract_exif_data(Val(r.image)).width,
     height |-> extract_exif_data(Val(r.image)).height,
     captured_at |-> extract_exif_data(Val(r.image)).captured_at,
     quality_score |-> calculate_image_quality(Val(r.image)).overall,
     processing_status |-> "processing"]

\* image_id = db_manager.insert_image(image_record)
InsertImage(p) ==
    /\ run[p].pc = "insert_image"
    /\ \/ LET res == insert_image(images, image_record(run[p]))
          IN /\ images' = res.rows
             /\ upserts' = upserts \cup
                   { [s3_key |-> run[p].s3_key,
                      file_hash |-> image_record(run[p]).file_hash,
                      id |-> res.id] }
             /\ run' = [run EXCEPT ![p] =
                   [@ EXCEPT !.image_id = Some(res.id),
                             !.pc = "detect",
                             !.log = Append(@, Call("insert_image", "", TRUE))]]
       \/ /\ run' = [run EXCEPT ![p] = Raise(@, "insert_image", "insert_image failed")]
          /\ UNCHANGED <<images, upserts>>
    /\ UNCHANGED <<detections, species, tracking, runs, prov, handles, returned, unit>>

\* detections = megadetector.detect(image_bytes)
DetectFrom(p, outputs) ==
    /\ run[p].pc = "detect"
    /\ \/ \E d \in outputs :
             /\ Val(run[p].image).decodable
             /\ Cardinality(detections) + Len(d) <= MaxRows
             /\ run' = [run EXCEPT ![p] =
                        [@ EXCEPT !.detections = d, !.idx = 1,
                                  !.pc = LoopPc(d, 1),
                                  !.log = Append(@, Call("detect", "", TRUE))]]
       \/ run' = [run EXCEPT ![p] = Raise(@, "detect", "detect failed")]
    /\ UNCHANGED <<images, detections, species, tracking, runs, prov, upserts, handles, returned, unit>>

Detect(p) == DetectFrom(p, DetectorOutputs)

CurrentBox(r) == r.detections[r.idx]

\* cropped_image = megadetector.crop_detection(image_bytes, bbox)
Crop(p) ==
    /\ run[p].pc = "crop"
    /\ \/ /\ Val(run[p].image).decodable
          /\ run' = [run EXCEPT ![p] =
                [@ EXCEPT !.rect = Some(PaddedCrop(CurrentBox(run[p]).bbox,
                                                   Val(run[p].image).width,
                                                   Val(run[p].image).height)),
                          !.pc = "classify",
                          !.log = Append(@, Call("crop", "", TRUE))]]
       \/ run' = [run EXCEPT ![p] = Raise(@, "crop", "crop failed")]
    /\ UNCHANGED <<images, detections, species, tracking, runs, prov, upserts, handles, returned, unit>>

\* species_predictions = speciesnet.classify(cropped_image, top_k=5)
Classify(p) ==
    /\ run[p].pc = "classify"
    /\ \/ \E out \in { CurrentBox(run[p]).crop_preds } :
             run' = [run EXCEPT ![p] =
                [@ EXCEPT !.raw = Some(out),
                          !.species_predictions = FilterByThreshold(out),
                          !.pc = IF FilterByThreshold(out) # << >>
                                 THEN "species_select" ELSE "insert_detection",
                          !.log = Append(@, Call("classify", "", TRUE))]]
       \/ run' = [run EXCEPT ![p] = Raise(@, "classify", "classify failed")]
    /\ UNCHANGED <<images, detections, species, tracking, runs, prov, upserts, handles, returned, unit>>

\* get_or_create_species, the SELECT: an existing row is returned, otherwise
\* the same transaction goes on to the INSERT.
SpeciesSelect(p) ==
    /\ run[p].pc = "species_select"
    /\ LET top_prediction == run[p].species_predictions[1]
           found == { r \in species : r.scientific_name = top_prediction.scientific_name }
       IN \/ run' = [run EXCEPT ![p] =
                [@ EXCEPT !.species_id =
                              IF found # {} THEN Some((CHOOSE r \in found : TRUE).id)
                              ELSE None,
                          !.pc = IF found # {} THEN "insert_detection"
                                 ELSE "species_insert",
                          !.log = IF found # {}
                                  THEN Append(@, Call("get_or_create_species", "", TRUE))
                                  ELSE @]]
          \/ run' = [run EXCEPT ![p] =
                        Raise(@, "get_or_create_species", "species failed")]
    /\ UNCHANGED <<images, detections, species, tracking, runs, prov, upserts, handles, returned, unit>>

\* Table species declares scientific_name UNIQUE: an INSERT of a name that a
\* committed row already carries is rejected.
UniqueViolation(rows, scientific_name) ==
    \E r \in rows : r.scientific_name = scientific_name

\* get_or_create_species, the INSERT ... RETURNING id and the commit.  The
\* SELECT ran in the same transaction (READ COMMITTED), so a row another
\* connection committed since then is not seen until the INSERT hits it.
SpeciesInsert(p) ==
    /\ run[p].pc = "species_insert"
    /\ LET top_prediction == run[p].species_predictions[1]
           new_id == NextId(species)
       IN \/ /\ UniqueViolation(species, top_prediction.scientific_name)
             /\ run' = [run EXCEPT ![p] =
                        Raise(@, "get_or_create_species", "duplicate key")]
             /\ UNCHANGED species
          \/ /\ ~UniqueViolation(species, top_prediction.scientific_name)
             /\ species' = species \cup
                    { [id |-> new_id,
                       scientific_name |-> top_prediction.scientific_name,
                       common_name |-> top_prediction.common_name] }
             /\ run' = [run EXCEPT ![p] =
                   [@ EXCEPT !.species_id = Some(new_id),
                             !.pc = "insert_detection",
                             !.log = Append(@, Call("get_or_create_species", "", TRUE))]]
          \/ /\ run' = [run EXCEPT ![p] =
                        Raise(@, "get_or_create_species", "species failed")]
             /\ UNCHANGED species
    /\ UNCHANGED <<images, detections, tracking, runs, prov, upserts, handles, returned, unit>>

\* The combined confidence taken from the classifier alone.
overall_confidence_top_only(md_confidence, sn_confidence) == sn_confidence

overall_confidence(md_confidence, sn_confidence) ==
    (md_confidence + sn_confidence) \div 2

needs_review(md_confidence) == md_confidence < REVIEW_CUTOFF

\* The detection_record dict as it stands at the insert_detection call.
detection_record(r) ==
    LET detection == CurrentBox(r)
        classified == detection.category = "animal" /\ r.species_predictions # << >>
        top_prediction == r.species_predictions[1]
    IN [image_id |-> Val(r.image_id),
        detection_type |-> detection.category,
        bbox |-> detection.bbox,
        megadetector_confidence |-> detection.confidence,
        needs_review |-> needs_review(detection.confidence),
        species_id |-> IF classified THEN r.species_id ELSE None,
        speciesnet_confidence |->
            IF classified THEN Some(top_prediction.confidence) ELSE None,
        overall_confidence |->
            IF classified
            THEN Some(overall_confidence(detection.confidence, top_prediction.confidence))
            ELSE None,
        species_top5 |-> IF classified THEN Some(r.species_predictions) ELSE None]

\* detection_id = db_manager.insert_detection(detection_record), then the
\* loop moves to the next box.
InsertDetection(p) ==
    /\ run[p].pc = "insert_detection"
    /\ \/ /\ detections' = insert_detection(detections, detection_record(run[p]))
          /\ prov' = prov \cup
                { [id |-> NextId(detections), run |-> runs, box |-> run[p].idx,
                   classifier_called |-> IsSome(run[p].raw),
                   classifier_hit |->
                       /\ IsSome(run[p].raw)
                       /\ \E i \in 1..Len(Val(run[p].raw)) :
                             Val(run[p].raw)[i].confidence >= SPECIESNET_THRESHOLD,
                   degenerate |-> IsSome(run[p].rect) /\ Degenerate(Val(run[p].rect))] }
          /\ run' = [run EXCEPT ![p] =
                [@ EXCEPT !.inserted = Append(@, NextId(detections)),
                          !.idx = @ + 1,
                          !.rect = None, !.raw = None,
                          !.species_predictions = << >>,
                          !.species_id = None,
                          !.pc = LoopPc(run[p].detections, run[p].idx + 1),
                          !.log = Append(@, Call("insert_detection", "", TRUE))]]
       \/ /\ run' = [run EXCEPT ![p] =
                        Raise(@, "insert_detection", "insert_detection failed")]
          /\ UNCHANGED <<detections, prov>>
    /\ UNCHANGED <<images, species, tracking, runs, upserts, handles, returned, unit>>

\* The 'completed' update with its failure logged and passed over: the run
\* goes on to the DETECTION_COMPLETE write.
UpdateCompleted_failure_ignored(p) ==
    /\ run[p].pc = "update_completed"
    /\ \/ /\ images' = update_image_status(images, Val(run[p].image_id), "completed", None)
          /\ run' = [run EXCEPT ![p] =
                [@ EXCEPT !.pc = "track_complete",
                          !.log = Append(@, Call("update_image_status", "completed", TRUE))]]
       \/ /\ run' = [run EXCEPT ![p] =
                [@ EXCEPT !.pc = "track_complete",
                          !.log = Append(@, Call("update_image_status",
                                                 "update_image_status failed", FALSE))]]
          /\ UNCHANGED images
    /\ UNCHANGED <<detections, species, tracking, runs, prov, upserts, handles, returned, unit>>

\* db_manager.update_image_status(image_id, 'completed')
UpdateCompleted(p) ==
    /\ run[p].pc = "update_completed"
    /\ \/ /\ images' = update_image_status(images, Val(run[p].image_id), "completed", None)
          /\ run' = [run EXCEPT ![p] =
                [@ EXCEPT !.pc = "track_complete",
                          !.log = Append(@, Call("update_image_status", "completed", TRUE))]]
       \/ /\ run' = [run EXCEPT ![p] =
                        Raise(@, "update_image_status", "update_image_status failed")]
          /\ UNCHANGED images
    /\ UNCHANGED <<detections, species, tracking, runs, prov, upserts, handles, returned, unit>>

\* has_animals computed as "any detection at all".
has_animals_any_detection(dets) == Len(dets) > 0

\* any(d['detection_type'] == 'animal' for d in detection_results)
has_animals(dets) == \E i \in 1..Len(dets) : dets[i].category = "animal"

\* update_dynamodb_status(s3_key, 'DETECTION_COMPLETE', {...}); return 200.
TrackComplete(p) ==
    /\ run[p].pc = "track_complete"
    /\ \E raised \in BOOLEAN :
          /\ tracking' = update_dynamodb_status(tracking, run[p].s3_key,
                "DETECTION_COMPLETE",
                [image_id |-> run[p].image_id,
                 detection_count |-> Some(Len(run[p].detections)),
                 has_animals |-> Some(has_animals(run[p].detections)),
                 error_message |-> None], ~raised)
          /\ run' = [run EXCEPT ![p] =
                [@ EXCEPT !.pc = "done", !.statusCode = 200,
                          !.log = Append(@, Call("track", "DETECTION_COMPLETE", ~raised))]]
    /\ returned' = Append(returned, Summary(run[p], 200))
    /\ UNCHANGED <<images, detections, species, runs, prov, upserts, handles, unit>>

\* The except block undoing the run's work: the detection rows of the image
\* are deleted in the transaction that marks it failed.
ExceptDurable_rollback(p) ==
    /\ run[p].pc = "except_durable"
    /\ \/ /\ images' = update_image_status(images, Val(run[p].image_id), "failed",
                                            run[p].err)
          /\ detections' = { d \in detections : d.image_id # Val(run[p].image_id) }
          /\ run' = [run EXCEPT ![p] =
                [@ EXCEPT !.pc = "except_track",
                          !.log = Append(@, Call("update_image_status", "failed", TRUE))]]
          /\ UNCHANGED returned
       \/ /\ run' = [run EXCEPT ![p] =
                [@ EXCEPT !.pc = "done", !.statusCode = 500,
                          !.log = Append(@, Call("update_image_status", "failed", FALSE))]]
          /\ returned' = Append(returned, Summary(run[p], 500))
          /\ UNCHANGED <<images, detections>>
    /\ UNCHANGED <<species, tracking, runs, prov, upserts, handles, unit>>

\* except block, image_id bound:
\* db_manager.update_image_status(image_id, 'failed', error_message=str(e)).
\* If this call raises, the exception leaves process_image and
\* lambda_handler returns 500.
ExceptDurable(p) ==
    /\ run[p].pc = "except_durable"
    /\ \/ /\ images' = update_image_status(images, Val(run[p].image_id), "failed",
                                            run[p].err)
          /\ run' = [run EXCEPT ![p] =
                [@ EXCEPT !.pc = "except_track",
                          !.log = Append(@, Call("update_image_status", "failed", TRUE))]]
          /\ UNCHANGED returned
       \/ /\ run' = [run EXCEPT ![p] =
                [@ EXCEPT !.pc = "done", !.statusCode = 500,
                          !.log = Append(@, Call("update_image_status", "failed", FALSE))]]
          /\ returned' = Append(returned, Summary(run[p], 500))
          /\ UNCHANGED images
    /\ UNCHANGED <<detections, species, tracking, runs, prov, upserts, handles, unit>>

\* The except block with the tracking write placed under the image_id test:
\* a run that failed before the upsert returns without writing.
ExceptTrack_under_image_id_test(p) ==
    /\ run[p].pc = "except_track"
    /\ \E raised \in BOOLEAN :
          /\ tracking' = IF IsSome(run[p].image_id)
                THEN update_dynamodb_status(tracking, run[p].s3_key,
                        "DETECTION_FAILED",
                        [image_id |-> None, detection_count |-> None,
                         has_animals |-> None, error_message |-> run[p].err], ~raised)
                ELSE tracking
          /\ run' = [run EXCEPT ![p] =
                [@ EXCEPT !.pc = "done", !.statusCode = 500,
                          !.log = IF IsSome(run[p].image_id)
                                  THEN Append(@, Call("track", "DETECTION_FAILED", ~raised))
                                  ELSE @]]
    /\ returned' = Append(returned, Summary(run[p], 500))
    /\ UNCHANGED <<images, detections, species, runs, prov, upserts, handles, unit>>

\* except block: update_dynamodb_status(s3_key, 'DETECTION_FAILED',
\* {'error_message': str(e)}); return 500.
ExceptTrack(p) ==
    /\ run[p].pc = "except_track"
    /\ \E raised \in BOOLEAN :
          /\ tracking' = update_dynamodb_status(tracking, run[p].s3_key,
                "DETECTION_FAILED",
                [image_id |-> None, detection_count |-> None,
                 has_animals |-> None, error_message |-> run[p].err], ~raised)
          /\ run' = [run EXCEPT ![p] =
                [@ EXCEPT !.pc = "done", !.statusCode = 500,
                          !.log = Append(@, Call("track", "DETECTION_FAILED", ~raised))]]
    /\ returned' = Append(returned, Summary(run[p], 500))
    /\ UNCHANGED <<images, detections, species, runs, prov, upserts, handles, unit>>

Next ==
    \E p \in Procs :
        \/ Invoke(p)
        \/ InitModels(p)
        \/ Receive(p)
        \/ GetObject(p)
        \/ InsertImage(p)
        \/ Detect(p)
        \/ Crop(p)
        \/ Classify(p)
        \/ SpeciesSelect(p)
        \/ SpeciesInsert(p)
        \/ InsertDetection(p)
        \/ UpdateCompleted(p)
        \/ TrackComplete(p)
        \/ ExceptDurable(p)
        \/ ExceptTrack(p)

Spec == Init /\ [][Next]_vars

\* ---- crop_detection evaluated on its own ----
\* Normalized coordinates in 1/BoxScale, 0 and 1 included, and image sizes.
CropCoords == {0, 1, 3, 8, 15, BoxScale}
CropSizes == { <<20, 10>>, <<8, 8>>, <<1, 1>>, <<640, 480>> }
CropInputs ==
    { [bbox |-> <<x, y, w, h>>, img_width |-> size[1], img_height |-> size[2],
       rect |-> None] :
          x \in CropCoords, y \in CropCoords, w \in CropCoords,
          h \in CropCoords, size \in CropSizes }

InitCrop == \E u \in CropInputs : InitFor(Procs, u)

\* The crop coordinates crop_detection computes for the arguments.
crop_detection ==
    /\ unit # None
    /\ unit.rect = None
    /\ unit' = [unit EXCEPT !.rect =
                    Some(PaddedCrop(unit.bbox, unit.img_width, unit.img_height))]
    /\ UNCHANGED <<images, detections, species, tracking, run, runs, handles,
                   prov, upserts, returned>>

NextCrop == crop_detection

SpecCrop == InitCrop /\ [][NextCrop]_vars

\* ---- concurrent instances over distinct keys ----
\* One lambda_handler call per worker, each worker its own container (its own
\* module globals), all on the same two stores.
ConcFiles == { f \in ImageFiles : f.width = 20 }
ConcOutputs ==
    SeqsUpTo({ Box("animal", 90, <<4, 4, 8, 8>>,
                   << Prediction("Ursus arctos", 70), Prediction("Canis lupus", 20) >>) },
             1)

InitConc == InitFor(Workers, None)

\* The scheduler hands worker p a notification for a key no other worker got.
InvokeOwn(p) ==
    /\ run[p].pc = "idle"
    /\ InvokeWith(p, { << k >> : k \in Keys \
                          { run[q].event[1] :
                              q \in { w \in Workers : run[w].event # << >> } } })

NextConc ==
    \E p \in Workers :
        \/ InvokeOwn(p)
        \/ InitModels(p)
        \/ Receive(p)
        \/ GetObjectFrom(p, ConcFiles)
        \/ InsertImage(p)
        \/ DetectFrom(p, ConcOutputs)
        \/ Crop(p)
        \/ Classify(p)
        \/ SpeciesSelect(p)
        \/ SpeciesInsert(p)
        \/ InsertDetection(p)
        \/ UpdateCompleted(p)
        \/ TrackComplete(p)
        \/ ExceptDurable(p)
        \/ ExceptTrack(p)

SpecConc == InitConc /\ [][NextConc]_vars

\* ---- shorthands for the properties ----
Returned(p) == run[p].pc = "done"
DurableStatus(id) == { r.processing_status : r \in { x \in images : x.id = id } }
TrackingStatus(k) ==
    IF IsSome(tracking[k]) THEN Val(tracking[k]).processing_status ELSE "absent"
CallFailed(p, op) ==
    \E i \in 1..Len(run[p].log) : run[p].log[i].op = op /\ ~run[p].log[i].ok
Wrote(p, op, arg) ==
    \E i \in 1..Len(run[p].log) : run[p].log[i].op = op /\ run[p].log[i].arg = arg
WroteOk(p, op, arg) ==
    \E i \in 1..Len(run[p].log) :
        run[p].log[i].op = op /\ run[p].log[i].arg = arg /\ run[p].log[i].ok

\* C1: once a run that obtained an image id has returned, the durable status
\* is 'completed' or 'failed' and the tracking status is DETECTION_COMPLETE
\* or DETECTION_FAILED, whatever writes failed during the run.
C1_TerminalInBothStores ==
    \A p \in Procs :
        (Returned(p) /\ IsSome(run[p].image_id)) =>
            /\ DurableStatus(Val(run[p].image_id)) \subseteq {"completed", "failed"}
            /\ TrackingStatus(run[p].s3_key) \in {"DETECTION_COMPLETE", "DETECTION_FAILED"}

\* C2: a run in which a call raised after the image id was obtained has, by
\* the time it returns, issued the 'failed' write to the durable store and
\* the DETECTION_FAILED write to the tracking store.
C2_FailureWritesBothStores ==
    \A p \in Procs :
        (Returned(p) /\ IsSome(run[p].image_id) /\ IsSome(run[p].err)) =>
            /\ Wrote(p, "update_image_status", "failed")
            /\ Wrote(p, "track", "DETECTION_FAILED")

\* C3: there is at most one image row per storage key, and all insert_image
\* calls made with one storage key returned the same id, whatever the content
\* hash passed with them.
C3_OneImagePerKey ==
    /\ \A r1, r2 \in images : r1.s3_key = r2.s3_key => r1 = r2
    /\ \A u1, u2 \in upserts : u1.s3_key = u2.s3_key => u1.id = u2.id

\* C3 witness: two insert_image calls with the same key and different hashes
\* have returned.
C3_Witness ==
    \E u1, u2 \in upserts :
        /\ u1.s3_key = u2.s3_key
        /\ u1.file_hash # u2.file_hash
        /\ \E r \in images : r.s3_key = u1.s3_key /\ r.id = u2.id

NoCallFailed(p) == \A i \in 1..Len(run[p].log) : run[p].log[i].ok
NoCallFailedButTracking(p) ==
    \A i \in 1..Len(run[p].log) : run[p].log[i].op # "track" => run[p].log[i].ok
RowsOfRun == { d \in detections : \E v \in prov : v.id = d.id /\ v.run = runs }
ProvOf(d) == CHOOSE v \in prov : v.id = d.id
SpeciesFieldsPresent(d) ==
    /\ IsSome(d.species_id)
    /\ IsSome(d.speciesnet_confidence)
    /\ IsSome(d.overall_confidence)
    /\ IsSome(d.species_top5)
SpeciesFieldsAbsent(d) ==
    /\ d.species_id = None
    /\ d.speciesnet_confidence = None
    /\ d.overall_confidence = None
    /\ d.species_top5 = None

\* C4: when the detector is about to be invoked, the image is 'processing'
\* in the durable store and PROCESSING in the tracking store, also on a
\* re-delivery, and the tracking write was issued before the durable one.
\* Stated for the runs in which no call has failed.
C4_ProcessingBeforeDetect ==
    \A p \in Procs :
        (run[p].pc = "detect" /\ NoCallFailed(p)) =>
            /\ DurableStatus(Val(run[p].image_id)) = {"processing"}
            /\ TrackingStatus(run[p].s3_key) = "PROCESSING"
            /\ \E i, j \in 1..Len(run[p].log) :
                  /\ i < j
                  /\ run[p].log[i].op = "track"
                  /\ run[p].log[j].op = "insert_image"

\* The item the DETECTION_COMPLETE write of a run carries.
CompletionItem(p) ==
    [processing_status |-> "DETECTION_COMPLETE",
     image_id |-> run[p].image_id,
     detection_count |-> Some(Len(run[p].detections)),
     has_animals |-> Some(\E i \in 1..Len(run[p].detections) :
                             run[p].detections[i].category = "animal"),
     error_message |-> None]

\* C5 as stated: a returned run whose detector call, classifier calls and
\* detection inserts all succeeded left the image 'completed' in the durable
\* store and issued the DETECTION_COMPLETE write, which, when it succeeded,
\* stored detection_count and has_animals.
C5_CompleteWhenModelsAndInsertsSucceed ==
    \A p \in Procs :
        (/\ Returned(p)
         /\ WroteOk(p, "detect", "")
         /\ ~CallFailed(p, "classify")
         /\ ~CallFailed(p, "insert_detection")) =>
            /\ DurableStatus(Val(run[p].image_id)) = {"completed"}
            /\ Wrote(p, "track", "DETECTION_COMPLETE")
            /\ WroteOk(p, "track", "DETECTION_COMPLETE") =>
                  tracking[run[p].s3_key] = Some(CompletionItem(p))

\* C5 amended: a returned run in which no call other than a tracking write
\* failed left the image 'completed' in the durable store and issued the
\* DETECTION_COMPLETE write last; when that write succeeded the tracking item
\* carries detection_count = number of boxes and has_animals = some box is
\* an animal.
C5_CompleteWhenAllCallsSucceed ==
    \A p \in Procs :
        (Returned(p) /\ NoCallFailedButTracking(p)) =>
            /\ run[p].statusCode = 200
            /\ DurableStatus(Val(run[p].image_id)) = {"completed"}
            /\ run[p].log[Len(run[p].log)].op = "track"
            /\ run[p].log[Len(run[p].log)].arg = "DETECTION_COMPLETE"
            /\ run[p].log[Len(run[p].log)].ok =>
                  tracking[run[p].s3_key] = Some(CompletionItem(p))

\* C5 witness: a run over an animal box has completed with every call
\* succeeding, and the tracking item of an earlier run over one non-animal
\* box says has_animals = FALSE.
C5_Witness ==
    \E p \in Procs :
        /\ Returned(p) /\ NoCallFailed(p)
        /\ Len(run[p].detections) = 1
        /\ run[p].detections[1].category = "animal"
        /\ tracking[run[p].s3_key] = Some(CompletionItem(p))
        /\ \E k \in Keys : /\ k # run[p].s3_key
                             /\ IsSome(tracking[k])
                             /\ Val(tracking[k]).detection_count = Some(1)
                             /\ Val(tracking[k]).has_animals = Some(FALSE)

C7_SpeciesFieldsIffClassified ==
    \A d \in detections :
        IF d.detection_type = "animal" /\ ProvOf(d).classifier_hit
        THEN SpeciesFieldsPresent(d)
        ELSE SpeciesFieldsAbsent(d)

\* C7 witness: a row classified exactly at the threshold and an animal row
\* without species.
C7_Witness ==
    /\ \E d \in detections : IsSome(d.species_id) /\ d.speciesnet_confidence = Some(50)
    /\ \E d \in detections : d.detection_type = "animal" /\ d.species_id = None

\* C8: an animal row whose classifier call returned nothing at or above the
\* threshold has no species and needs_review = TRUE, whatever the detector
\* confidence.
C8_NoPredictionNeedsReview ==
    \A d \in detections :
        (/\ d.detection_type = "animal"
         /\ ProvOf(d).classifier_called
         /\ ~ProvOf(d).classifier_hit) =>
            d.species_id = None /\ d.needs_review

DegenerateBox(r) ==
    /\ r.idx <= Len(r.detections)
    /\ CurrentBox(r).category = "animal"
    /\ Degenerate(PaddedCrop(CurrentBox(r).bbox, Val(r.image).width,
                              Val(r.image).height))

\* C9: for an animal box whose padded crop rectangle is degenerate the
\* classifier is not invoked, the crop does not fail the run, and the row
\* persisted for it is flagged needs_review.
C9_DegenerateCropSkipsClassifier ==
    /\ \A p \in Procs :
          (IsSome(run[p].image) /\ DegenerateBox(run[p])) =>
              /\ run[p].pc # "classify"
              /\ run[p].raw = None
              /\ run[p].err # Some("crop failed")
    /\ \A d \in detections : ProvOf(d).degenerate => d.needs_review

C11_FailureBeforeImageId ==
    /\ [](\A p \in Procs :
            (/\ Returned(p)
             /\ CallFailed(p, "get_object") \/ CallFailed(p, "insert_image")) =>
                /\ run[p].image_id = None
                /\ Wrote(p, "track", "DETECTION_FAILED")
                /\ run[p].log[Len(run[p].log)].op = "track"
                /\ ~Wrote(p, "update_image_status", "failed")
                /\ WroteOk(p, "track", "DETECTION_FAILED") =>
                      /\ TrackingStatus(run[p].s3_key) = "DETECTION_FAILED"
                      /\ Val(tracking[run[p].s3_key]).error_message = run[p].err)
    /\ [][\A p \in Procs :
            (run[p].image_id = None /\ run'[p].image_id = None) =>
                UNCHANGED <<images, detections>>]_vars

\* C11 witness: insert_image raised on the re-delivery of a key whose image
\* row is 'completed' and has a detection row.
C11_Witness ==
    \E p \in Procs :
        /\ Returned(p) /\ CallFailed(p, "insert_image")
        /\ \E r \in images :
              /\ r.s3_key = run[p].s3_key
              /\ r.processing_status = "completed"
              /\ \E d \in detections : d.image_id = r.id

\* C12: an insert_image call for a key that already has a row leaves that
\* row as it is: content hash, file size, dimensions, capture time, quality
\* score, processing status and error message (updated_at is not modelled).
C12_UpsertLeavesRecord ==
    [][\A p \in Procs :
          run[p].pc = "insert_image" =>
              \A r \in images : r.s3_key = run[p].s3_key => r \in images']_vars

\* C12 witness: insert_image has just returned for a key whose row is
\* 'failed' with a message and was written from different bytes.
C12_Witness ==
    \E p \in Procs :
        /\ run[p].pc = "detect"
        /\ \E r \in images :
              /\ r.s3_key = run[p].s3_key
              /\ r.id = Val(run[p].image_id)
              /\ r.processing_status = "failed"
              /\ IsSome(r.error_message)
              /\ r.file_hash # image_record(run[p]).file_hash
              /\ r.file_size # image_record(run[p]).file_size
              /\ r.width # image_record(run[p]).width
              /\ r.quality_score # image_record(run[p]).quality_score

\* The rows the first returned call inserted are, box for box, the boxes of
\* the current run.
SameBoxesAsFirstRun(p) ==
    LET first == { d \in detections : ProvOf(d).run = returned[1].delivery }
    IN /\ Cardinality(first) = Len(run[p].detections)
       /\ \A i \in 1..Len(run[p].detections) :
             \E d \in first :
                 /\ ProvOf(d).box = i
                 /\ d.detection_type = run[p].detections[i].category
                 /\ d.bbox = run[p].detections[i].bbox
                 /\ d.megadetector_confidence = run[p].detections[i].confidence

TwiceSucceeded(p) ==
    /\ Returned(p)
    /\ Len(returned) = 2
    /\ returned[1].statusCode = 200 /\ returned[2].statusCode = 200
    /\ returned[1].s3_key = returned[2].s3_key
    /\ SameBoxesAsFirstRun(p)

\* C13: after the same notification was processed twice, both runs returning
\* 200 with the detector returning the same n boxes, the key has exactly one
\* image row and that image has 2n detection rows.
C13_RedeliveryDoublesDetections ==
    \A p \in Procs :
        TwiceSucceeded(p) =>
            /\ Cardinality({ r \in images : r.s3_key = run[p].s3_key }) = 1
            /\ Cardinality({ d \in detections : d.image_id = Val(run[p].image_id) })
                   = 2 * Len(run[p].detections)

\* C13 witness: both deliveries succeeded with the same single box.
C13_Witness ==
    \E p \in Procs : TwiceSucceeded(p) /\ Len(run[p].detections) = 1

\* C14: whatever the interleaving of the get_or_create_species calls of
\* concurrent instances, a scientific name has at most one species row and no
\* call is rejected because of the other instance's row.
C14_OneSpeciesNoRaise ==
    /\ \A r1, r2 \in species : r1.scientific_name = r2.scientific_name => r1 = r2
    /\ \A p \in DOMAIN run : run[p].err # Some("duplicate key")

\* No call of the run failed for a reason of its own environment: every
\* failed call is a swallowed tracking put or the rejection caused by the
\* other instance.
NoOwnFailure(p) ==
    \A i \in 1..Len(run[p].log) :
        \/ run[p].log[i].ok
        \/ run[p].log[i].op = "track"
        \/ run[p].log[i].arg = "duplicate key"

\* C15: with instances running concurrently over distinct keys, a run ends
\* as it would alone: when none of its own calls failed it returns 200, its
\* image is 'completed' and has one detection row per box.
C15_OutcomeAsIfAlone ==
    \A p \in DOMAIN run :
        (Returned(p) /\ NoOwnFailure(p)) =>
            /\ run[p].statusCode = 200
            /\ DurableStatus(Val(run[p].image_id)) = {"completed"}
            /\ Cardinality({ d \in detections : d.image_id = Val(run[p].image_id) })
                   = Len(run[p].detections)

\* C16: every lambda_handler call ends by returning a result with statusCode
\* 200 or 500; no exception reaches the trigger.
C16_AlwaysStructuredResult ==
    \A p \in Procs :
        /\ run[p].pc # "propagated"
        /\ Returned(p) => run[p].statusCode \in {200, 500}

\* C17: after a call of a run has raised (a swallowed tracking put aside),
\* the run makes no further get_object, detect, crop, classify,
\* get_or_create_species, insert_image or insert_detection call: every later
\* call is the 'failed' write to the durable store or the DETECTION_FAILED
\* write to the tracking store.
C17_NothingAfterFatalFailure ==
    \A p \in Procs :
        \A i, j \in 1..Len(run[p].log) :
            (i < j /\ ~run[p].log[i].ok /\ run[p].log[i].op # "track") =>
                \/ /\ run[p].log[j].op = "update_image_status"
                   /\ run[p].log[j].arg = "failed"
                \/ /\ run[p].log[j].op = "track"
                   /\ run[p].log[j].arg = "DETECTION_FAILED"

\* C17 witness: the classifier raised on the first of two boxes, and the run
\* returned after its two 'failed' writes with the second box untouched.
C17_Witness ==
    \E p \in Procs :
        /\ Returned(p) /\ CallFailed(p, "classify")
        /\ Len(run[p].detections) = 2 /\ run[p].idx = 1
        /\ WroteOk(p, "update_image_status", "failed")
        /\ WroteOk(p, "track", "DETECTION_FAILED")
        /\ Len(run[p].log) = 8

Count(p, op) == Cardinality({ i \in 1..Len(run[p].log) : run[p].log[i].op = op })
AnimalBoxes(p, upto) ==
    { i \in 1..Len(run[p].detections) :
          i <= upto /\ run[p].detections[i].category = "animal" }

\* C18 as stated: a returned run that invoked the detector invoked it once
\* and invoked the classifier once for each returned box of category animal.
C18_ClassifierOncePerAnimalBox ==
    \A p \in Procs :
        (Returned(p) /\ Count(p, "detect") > 0) =>
            /\ Count(p, "detect") = 1
            /\ Count(p, "classify") =
                   Cardinality(AnimalBoxes(p, Len(run[p].detections)))

\* C18 amended: a run past the upsert has invoked the detector exactly once;
\* the classifier has been invoked once for each animal box the loop is
\* through, once more when it was invoked for the current box, and for no
\* other box; a run that returned 200 invoked it once per animal box; no row
\* of a person, vehicle or unknown box saw a classifier call.
C18_ClassifierOncePerAnimalBoxReached ==
    /\ \A p \in Procs :
          /\ Count(p, "detect") <= 1
          /\ run[p].pc \in {"crop", "classify", "species_select", "species_insert",
                            "insert_detection", "update_completed", "track_complete"}
                 => Count(p, "detect") = 1
          /\ Count(p, "classify") =
                 Cardinality(AnimalBoxes(p, run[p].idx - 1))
                 + (IF IsSome(run[p].raw) \/ CallFailed(p, "classify") THEN 1 ELSE 0)
          /\ IsSome(run[p].raw) => CurrentBox(run[p]).category = "animal"
          /\ (Returned(p) /\ run[p].statusCode = 200) =>
                 Count(p, "classify") =
                     Cardinality(AnimalBoxes(p, Len(run[p].detections)))
    /\ \A d \in detections :
          d.detection_type # "animal" => ~ProvOf(d).classifier_called

\* C18 witness: a run over an animal box and a person box returned 200 after
\* one classifier call.
C18_Witness ==
    \E p \in Procs :
        /\ Returned(p) /\ run[p].statusCode = 200
        /\ Len(run[p].detections) = 2
        /\ run[p].detections[1].category = "animal"
        /\ run[p].detections[2].category = "person"
        /\ Count(p, "classify") = 1

C20_PaddedCropInsideImage ==
    (unit # None /\ IsSome(unit.rect)) =>
        LET rect == Val(unit.rect)
        IN /\ 0 <= rect.left /\ rect.left <= rect.right
           /\ rect.right <= unit.img_width
           /\ 0 <= rect.top /\ rect.top <= rect.bottom
           /\ rect.bottom <= unit.img_height

\* C20 witness: a box in the bottom right corner that reaches past both
\* edges, cropped on a 640x480 image with the padding cut off at the edges.
C20_Witness ==
    /\ unit # None
    /\ unit.bbox = <<15, 15, 8, 8>>
    /\ unit.img_width = 640
    /\ unit.rect = Some([left |-> 568, top |-> 426, right |-> 640, bottom |-> 480])

\* ---- the end-to-end example ----
\* A run whose detector returned the one animal box at confidence 0.9 for
\* which the classifier model computes Ursus arctos 0.7, Canis lupus 0.2, and
\* which has stored the record of that box.
ExampleBox ==
    Box("animal", 90, <<4, 4, 8, 8>>,
        << Prediction("Ursus arctos", 70), Prediction("Canis lupus", 20) >>)
ExampleRows(p) ==
    IF run[p].detections = << ExampleBox >> /\ Len(run[p].inserted) = 1
    THEN { d \in detections : d.id = run[p].inserted[1] }
    ELSE {}
SpeciesOf(d) ==
    { s.scientific_name : s \in { x \in species : Some(x.id) = d.species_id } }

\* C21: with one animal box at confidence 0.9, classifier output
\* [("Ursus arctos", 0.7), ("Canis lupus", 0.2)] and threshold 0.5, the
\* stored record has species Ursus arctos, combined confidence 0.8,
\* needs-review false and an alternatives list of length 2.
C21_ExampleRecordTwoAlternatives ==
    \A p \in DOMAIN run : \A d \in ExampleRows(p) :
        /\ SpeciesOf(d) = {"Ursus arctos"}
        /\ d.overall_confidence = Some(80)
        /\ d.needs_review = FALSE
        /\ IsSome(d.species_top5) /\ Len(Val(d.species_top5)) = 2

\* C21 as amended: the same record, whose alternatives list holds the one
\* prediction at or above the threshold.
C21_ExampleRecord ==
    \A p \in DOMAIN run : \A d \in ExampleRows(p) :
        /\ SpeciesOf(d) = {"Ursus arctos"}
        /\ d.overall_confidence = Some(80)
        /\ d.needs_review = FALSE
        /\ d.species_top5 = Some(<< Prediction("Ursus arctos", 70) >>)

\* C21 witness: the example run has returned success with its record stored.
C21_Witness ==
    \E p \in DOMAIN run :
        /\ Returned(p) /\ run[p].statusCode = 200
        /\ ExampleRows(p) # {}
        /\ SPECIESNET_THRESHOLD = 50

\* ---- classify evaluated on its own ----
\* What the classifier model ranks: distinct class labels (a class id the
\* taxonomy does not know is named Unknown_<id>), confidences below, at and
\* above the threshold, highest first as torch.topk returns them.
MaxClasses == 3
ClassPredictions ==
    { Prediction(sn, c) : sn \in SpeciesNames, c \in {20, 50, 70} } \cup
    { [scientific_name |-> "Unknown_7", common_name |-> "Unknown",
       confidence |-> c] : c \in {20, 50, 70} }
RankedOutputs ==
    { s \in SeqsUpTo(ClassPredictions, MaxClasses) :
        /\ \A i, j \in 1..Len(s) :
              i # j => s[i].scientific_name # s[j].scientific_name
        /\ \A i \in 1..(Len(s) - 1) : s[i].confidence >= s[i + 1].confidence }
ClassifyInputs ==
    { [ranked |-> s, top_k |-> k, evaluated |-> FALSE,
       species_predictions |-> None, top_prediction |-> None] :
          s \in RankedOutputs, k \in 1..MaxClasses }

InitClassify == \E u \in ClassifyInputs : InitFor(Procs, u)

\* The handler's choice with the last prediction in place of the first.
top_prediction_last(species_predictions) ==
    species_predictions[Len(species_predictions)]

\* top_prediction = species_predictions[0]
top_prediction(species_predictions) == species_predictions[1]

\* SpeciesNet.classify from the ranking on: torch.topk raises when asked for
\* more entries than there are classes, otherwise the top_k entries pass
\* the threshold filter.
classify(ranked, top_k) ==
    IF top_k > Len(ranked) THEN None
    ELSE Some(FilterByThreshold(Truncate(ranked, top_k)))

\* species_predictions = speciesnet.classify(crop, top_k) and, when the list
\* is not empty, the handler's top_prediction.
ClassifyRanked ==
    /\ unit # None
    /\ ~unit.evaluated
    /\ LET result == classify(unit.ranked, unit.top_k)
       IN unit' = [unit EXCEPT
                      !.evaluated = TRUE,
                      !.species_predictions = result,
                      !.top_prediction =
                          IF IsSome(result) /\ Val(result) # << >>
                          THEN Some(top_prediction(Val(result))) ELSE None]
    /\ UNCHANGED <<images, detections, species, tracking, run, runs, handles,
                   prov, upserts, returned>>

NextClassify == ClassifyRanked

SpecClassify == InitClassify /\ [][NextClassify]_vars

\* C22: for every classifier output sorted descending by confidence, the
\* assigned species is the entry of highest confidence among those at or
\* above the threshold (none when there is no such entry), and the
\* alternatives list is exactly the entries at or above the threshold, in
\* their original order, with at most top-K entries.
C22_AlternativesAreFilteredOutput ==
    (unit # None /\ unit.evaluated /\ IsSome(unit.species_predictions)) =>
        LET out == SubSeq(unit.ranked, 1, unit.top_k)
            kept == { i \in 1..Len(out) : out[i].confidence >= SPECIESNET_THRESHOLD }
            Nth(j) == CHOOSE i \in kept : Cardinality({ x \in kept : x < i }) = j - 1
            alternatives == Val(unit.species_predictions)
        IN /\ Len(alternatives) = Cardinality(kept)
           /\ \A j \in 1..Len(alternatives) : alternatives[j] = out[Nth(j)]
           /\ Len(alternatives) <= unit.top_k
           /\ kept = {} => unit.top_prediction = None
           /\ kept # {} =>
                 /\ IsSome(unit.top_prediction)
                 /\ \E i \in kept : out[i] = Val(unit.top_prediction)
                 /\ \A i \in kept :
                       out[i].confidence <= Val(unit.top_prediction).confidence

\* C22 witness: three ranked classes, one above, one at and one below the
\* threshold; the two that pass are kept in order and the first is assigned.
C22_Witness ==
    /\ unit # None
    /\ unit.evaluated
    /\ unit.top_k = 3
    /\ unit.ranked = << Prediction("Ursus arctos", 70), Prediction("Canis lupus", 50),
                        [scientific_name |-> "Unknown_7", common_name |-> "Unknown",
                         confidence |-> 20] >>
    /\ unit.species_predictions =
           Some(<< Prediction("Ursus arctos", 70), Prediction("Canis lupus", 50) >>)
    /\ unit.top_prediction = Some(Prediction("Ursus arctos", 70))

\* ---- parse_s3_path evaluated on its own ----
\* A key is the sequence of its characters.  The keys tried: every string
\* over one letter and the separator up to MaxKeyLen characters (no segment
\* up to more than six, empty segments included) and the single-segment key
\* of the example.
MaxKeyLen == 11
OnlyFile == <<"o", "n", "l", "y", "f", "i", "l", "e", ".", "j", "p", "g">>
KeyStrings == SeqsUpTo({"a", "/"}, MaxKeyLen) \cup { OnlyFile }
PathInputs == { [s3_key |-> k, metadata |-> None] : k \in KeyStrings }

InitPath == \E u \in PathInputs : InitFor(Procs, u)

\* s3_key.split('/'): the segments between separators, empty ones kept; the
\* empty string gives one empty segment.
Split(s) ==
    LET F[i \in 0..Len(s)] ==
            IF i = 0 THEN << << >> >>
            ELSE IF s[i] = "/" THEN Append(F[i - 1], << >>)
                 ELSE [F[i - 1] EXCEPT ![Len(F[i - 1])] = Append(@, s[i])]
    IN F[Len(s)]

\* The parser indexing without the length tests: IndexError on a key with
\* fewer than five segments.
parse_s3_path_unguarded(s3_key) ==
    LET parts == Split(s3_key)
    IN IF Len(parts) < 5 THEN None
       ELSE Some([project_name |-> Some(parts[1]),
                  country |-> Some(parts[2]),
                  client |-> Some(parts[3]),
                  camera_id |-> Some(parts[4]),
                  date |-> Some(parts[5]),
                  file_name |-> Some(parts[Len(parts)])])

\* The parser taking the file name from the position after the date.
parse_s3_path_file_name_sixth(s3_key) ==
    LET parts == Split(s3_key)
    IN Some([project_name |-> IF Len(parts) > 0 THEN Some(parts[1]) ELSE None,
             country |-> IF Len(parts) > 1 THEN Some(parts[2]) ELSE None,
             client |-> IF Len(parts) > 2 THEN Some(parts[3]) ELSE None,
             camera_id |-> IF Len(parts) > 3 THEN Some(parts[4]) ELSE None,
             date |-> IF Len(parts) > 4 THEN Some(parts[5]) ELSE None,
             file_name |-> IF Len(parts) > 5 THEN Some(parts[6]) ELSE None])

\* parse_s3_path: the returned dict (the function has no raising step on a
\* string); parts[-1] is the last segment.
parse_s3_path(s3_key) ==
    LET parts == Split(s3_key)
    IN Some([project_name |-> IF Len(parts) > 0 THEN Some(parts[1]) ELSE None,
             country |-> IF Len(parts) > 1 THEN Some(parts[2]) ELSE None,
             client |-> IF Len(parts) > 2 THEN Some(parts[3]) ELSE None,
             camera_id |-> IF Len(parts) > 3 THEN Some(parts[4]) ELSE None,
             date |-> IF Len(parts) > 4 THEN Some(parts[5]) ELSE None,
             file_name |-> IF Len(parts) > 0 THEN Some(parts[Len(parts)]) ELSE None])

\* Set when parse_s3_path has been called on the key: its result, or the
\* exception.
ParsePath ==
    /\ unit # None
    /\ unit.metadata = None
    /\ unit' = [unit EXCEPT !.metadata =
                   IF IsSome(parse_s3_path(unit.s3_key))
                   THEN Some([raised |-> FALSE,
                              fields |-> parse_s3_path(unit.s3_key)])
                   ELSE Some([raised |-> TRUE, fields |-> None])]
    /\ UNCHANGED <<images, detections, species, tracking, run, runs, handles,
                   prov, upserts, returned>>

NextPath == ParsePath

SpecPath == InitPath /\ [][NextPath]_vars

\* The segment at position k (from 0) of a key, read off the positions of
\* its separators; SegmentCount is one more than the number of separators.
Separators(key) == { i \in 1..Len(key) : key[i] = "/" }
SegmentCount(key) == Cardinality(Separators(key)) + 1
SeparatorAt(key, k) ==
    IF k = 0 THEN 0
    ELSE IF k > Cardinality(Separators(key)) THEN Len(key) + 1
    ELSE CHOOSE i \in Separators(key) :
             Cardinality({ x \in Separators(key) : x < i }) = k - 1
Segment(key, k) ==
    SubSeq(key, SeparatorAt(key, k) + 1, SeparatorAt(key, k + 1) - 1)
SegmentOrAbsent(key, k) ==
    IF k < SegmentCount(key) THEN Some(Segment(key, k)) ELSE None

\* C23: parse_s3_path never raises, and project, country, client, camera id
\* and date are segments 0..4 of the key split on '/', each absent exactly
\* when the key has no segment at that position.
C23_FieldsByPosition ==
    (unit # None /\ IsSome(unit.metadata)) =>
        /\ ~Val(unit.metadata).raised
        /\ LET fields == Val(Val(unit.metadata).fields)
           IN /\ fields.project_name = SegmentOrAbsent(unit.s3_key, 0)
              /\ fields.country = SegmentOrAbsent(unit.s3_key, 1)
              /\ fields.client = SegmentOrAbsent(unit.s3_key, 2)
              /\ fields.camera_id = SegmentOrAbsent(unit.s3_key, 3)
              /\ fields.date = SegmentOrAbsent(unit.s3_key, 4)

\* C23 witness: a key of three segments, the second one empty, has been
\* parsed: project, country and client are set, camera id and date absent.
C23_Witness ==
    /\ unit # None
    /\ unit.s3_key = <<"a", "a", "/", "/", "a">>
    /\ IsSome(unit.metadata)
    /\ ~Val(unit.metadata).raised
    /\ Val(Val(unit.metadata).fields).project_name = Some(<<"a", "a">>)
    /\ Val(Val(unit.metadata).fields).country = Some(<< >>)
    /\ Val(Val(unit.metadata).fields).client = Some(<<"a">>)
    /\ Val(Val(unit.metadata).fields).camera_id = None
    /\ Val(Val(unit.metadata).fields).date = None

ArcSecondsPerDegree == 3600
ArcSecondsPerMinute == 60
GpsTriples == { <<d, m, s>> : d \in {0, 10}, m \in {0, 30}, s \in {0, 59} }
GpsBlocks ==
    { [lat_ref |-> r1, lat |-> v2, lon_ref |-> r3, lon |-> v4,
       alt_ref |-> r5, alt |-> v6] :
          r1 \in {None, Some("N"), Some("S")},
          v2 \in {None, Some(<<10, 30>>)} \cup { Some(t) : t \in GpsTriples },
          r3 \in {None, Some("E"), Some("W")},
          v4 \in {None, Some(<<20, 15, 45>>), Some(<<0, 0, 1>>), Some(<<20>>)},
          r5 \in {None, Some(0), Some(1)},
          v6 \in {None, Some([numeric |-> TRUE, metres |-> 120]),
                  Some([numeric |-> FALSE, metres |-> 0])} }
GpsInputs == { [gps_info |-> g, evaluated |-> FALSE, gps_data |-> None] : g \in GpsBlocks }

InitGps == \E u \in GpsInputs : InitFor(Procs, u)

\* The conversion without the seconds term.
convert_to_degrees_no_seconds(value) ==
    IF Len(value) # 3 THEN None
    ELSE Some(value[1] * ArcSecondsPerDegree + value[2] * ArcSecondsPerMinute)

\* convert_to_degrees: d, m, s = value raises unless value has three
\* components; otherwise d + m/60 + s/3600.
convert_to_degrees(value) ==
    IF Len(value) # 3 THEN None
    ELSE Some(value[1] * ArcSecondsPerDegree + value[2] * ArcSecondsPerMinute + value[3])

\* extract_gps_data: the three components are computed inside one try, and
\* an exception in any of them returns None; an empty dict returns None too.
extract_gps_data(gps_info) ==
    LET has_lat == IsSome(gps_info.lat_ref) /\ IsSome(gps_info.lat)
        has_lon == IsSome(gps_info.lon_ref) /\ IsSome(gps_info.lon)
        has_alt == IsSome(gps_info.alt)
        raised ==
            \/ has_lat /\ convert_to_degrees(Val(gps_info.lat)) = None
            \/ has_lon /\ convert_to_degrees(Val(gps_info.lon)) = None
            \/ has_alt /\ ~Val(gps_info.alt).numeric
        lat == Val(convert_to_degrees(Val(gps_info.lat)))
        lon == Val(convert_to_degrees(Val(gps_info.lon)))
        altitude == Val(gps_info.alt).metres
        gps_data ==
            [gps_latitude |->
                 IF ~has_lat THEN None
                 ELSE IF Val(gps_info.lat_ref) = "S" THEN Some(0 - lat) ELSE Some(lat),
             gps_longitude |->
                 IF ~has_lon THEN None
                 ELSE IF Val(gps_info.lon_ref) = "W" THEN Some(0 - lon) ELSE Some(lon),
             gps_altitude |->
                 IF ~has_alt THEN None
                 ELSE IF IsSome(gps_info.alt_ref) /\ Val(gps_info.alt_ref) = 1
                      THEN Some(0 - altitude) ELSE Some(altitude)]
    IN IF raised THEN None
       ELSE IF ~has_lat /\ ~has_lon /\ ~has_alt THEN None
       ELSE Some(gps_data)

\* gps_data = extract_gps_data(value)
ExtractGps ==
    /\ unit # None
    /\ ~unit.evaluated
    /\ unit' = [unit EXCEPT !.evaluated = TRUE,
                            !.gps_data = extract_gps_data(unit.gps_info)]
    /\ UNCHANGED <<images, detections, species, tracking, run, runs, handles,
                   prov, upserts, returned>>

NextGps == ExtractGps

SpecGps == InitGps /\ [][NextGps]_vars

\* What the output holds for a component: absent when the output is empty.
GpsOut(field) ==
    IF IsSome(unit.gps_data) THEN Val(unit.gps_data)[field] ELSE None
WellFormedTriple(o) == IsSome(o) /\ Len(Val(o)) = 3

\* C25: latitude, longitude and altitude are computed independently: each is
\* in the output exactly when its source fields are present (ref and triple
\* for a coordinate, the altitude value for the altitude), and a missing or
\* malformed source of one component never removes another from the output.
C25_ComponentsIndependent ==
    (unit # None /\ unit.evaluated) =>
        LET g == unit.gps_info
        IN /\ (IsSome(g.lat_ref) /\ WellFormedTriple(g.lat))
                  <=> IsSome(GpsOut("gps_latitude"))
           /\ (IsSome(g.lon_ref) /\ WellFormedTriple(g.lon))
                  <=> IsSome(GpsOut("gps_longitude"))
           /\ (IsSome(g.alt) /\ Val(g.alt).numeric)
                  <=> IsSome(GpsOut("gps_altitude"))

\* C26: a converted coordinate has magnitude d + m/60 + s/3600 and is negated
\* exactly when the latitude ref is 'S' or the longitude ref is 'W'; the
\* altitude is negated exactly when the below-sea-level flag is present and
\* equals 1.
C26_MagnitudeAndSign ==
    (unit # None /\ unit.evaluated /\ IsSome(unit.gps_data)) =>
        LET g == unit.gps_info
            Seconds(t) == t[1] * 3600 + t[2] * 60 + t[3]
        IN /\ IsSome(GpsOut("gps_latitude")) =>
                 Val(GpsOut("gps_latitude")) =
                     IF g.lat_ref = Some("S") THEN 0 - Seconds(Val(g.lat))
                     ELSE Seconds(Val(g.lat))
           /\ IsSome(GpsOut("gps_longitude")) =>
                 Val(GpsOut("gps_longitude")) =
                     IF g.lon_ref = Some("W") THEN 0 - Seconds(Val(g.lon))
                     ELSE Seconds(Val(g.lon))
           /\ IsSome(GpsOut("gps_altitude")) =>
                 Val(GpsOut("gps_altitude")) =
                     IF g.alt_ref = Some(1) THEN 0 - Val(g.alt).metres
                     ELSE Val(g.alt).metres

\* C26 witness: 10 deg 30' 59" south, 20 deg 15' 45" west and 120 m below sea
\* level come out as -37859", -72945" and -120 m.
C26_Witness ==
    /\ unit # None
    /\ unit.evaluated
    /\ unit.gps_info = [lat_ref |-> Some("S"), lat |-> Some(<<10, 30, 59>>),
                        lon_ref |-> Some("W"), lon |-> Some(<<20, 15, 45>>),
                        alt_ref |-> Some(1),
                        alt |-> Some([numeric |-> TRUE, metres |-> 120])]
    /\ unit.gps_data = Some([gps_latitude |-> Some(0 - 37859),
                             gps_longitude |-> Some(0 - 72945),
                             gps_altitude |-> Some(0 - 120)])

\* ---- calculate_image_quality evaluated on the pixels ----
\* A decoded greyscale image is its rows of pixel values 0..255.  The images
\* tried: every size up to MaxGridHeight x MaxGridWidth, filled with one
\* grey level or with any mix of black and white.
MaxGridHeight == 2
MaxGridWidth == 3
FullScale == 255
GreyLevels == {0, 1, 127, 128, FullScale}
PixelGrids ==
    UNION { { [r \in 1..h |-> [c \in 1..w |-> v]] : v \in GreyLevels } \cup
            [1..h -> [1..w -> {0, FullScale}]] :
                h \in 1..MaxGridHeight, w \in 1..MaxGridWidth }
QualityInputs ==
    { [img_array |-> g, lap |-> None, quality |-> None] : g \in PixelGrids }

InitQuality == \E u \in QualityInputs : InitFor(Procs, u)

\* signal.convolve2d(img_array, laplacian, mode='same') with boundary='fill':
\* pixels outside the image count as zero.
convolve2d_fill(img_array) ==
    LET h == Len(img_array)
        w == Len(img_array[1])
        At(r, c) == IF r < 1 \/ r > h \/ c < 1 \/ c > w THEN 0 ELSE img_array[r][c]
    IN [r \in 1..h |-> [c \in 1..w |->
           At(r - 1, c) + At(r + 1, c) + At(r, c - 1) + At(r, c + 1)
               - 4 * img_array[r][c]]]

\* signal.convolve2d(img_array, laplacian, mode='same', boundary='symm'): a
\* pixel one step outside the image is the mirror image of the edge pixel.
convolve2d_symm(img_array) ==
    LET h == Len(img_array)
        w == Len(img_array[1])
        At(r, c) == img_array[Max(1, Min(h, r))][Max(1, Min(w, c))]
    IN [r \in 1..h |-> [c \in 1..w |->
           At(r - 1, c) + At(r + 1, c) + At(r, c - 1) + At(r, c + 1)
               - 4 * img_array[r][c]]]

\* Number of pixels, their sum and the sum of their squares.
GridSize(grid) == Len(grid) * Len(grid[1])
GridSum(grid) ==
    LET w == Len(grid[1])
        S[k \in 0..GridSize(grid)] ==
            IF k = 0 THEN 0
            ELSE S[k - 1] + grid[((k - 1) \div w) + 1][((k - 1) % w) + 1]
    IN S[GridSize(grid)]
GridSumSquares(grid) ==
    LET w == Len(grid[1])
        S[k \in 0..GridSize(grid)] ==
            IF k = 0 THEN 0
            ELSE S[k - 1] + grid[((k - 1) \div w) + 1][((k - 1) % w) + 1]
                              * grid[((k - 1) \div w) + 1][((k - 1) % w) + 1]
    IN S[GridSize(grid)]

\* calculate_image_quality on decoded pixels: np.mean(img_array) / 255.0 is
\* sum / (255 n) and np.var(lap) is (n * sum of squares - square of sum) / n^2.
image_quality(img_array) ==
    LET n == GridSize(img_array)
        lap == convolve2d_symm(img_array)
    IN quality_metrics(GridSum(img_array), FullScale * n,
                       n * GridSumSquares(lap) - GridSum(lap) * GridSum(lap),
                       n * n)

\* quality_metrics = calculate_image_quality(image_bytes), for bytes that
\* decode to the pixels.
CalculateQuality ==
    /\ unit # None
    /\ unit.quality = None
    /\ unit' = [unit EXCEPT !.lap = Some(convolve2d_symm(unit.img_array)),
                            !.quality = Some(image_quality(unit.img_array))]
    /\ UNCHANGED <<images, detections, species, tracking, run, runs, handles,
                   prov, upserts, returned>>

NextQuality == CalculateQuality

SpecQuality == InitQuality /\ [][NextQuality]_vars

\* The image holds one grey level only.
ConstantImage(grid) ==
    \A r \in 1..Len(grid) : \A c \in 1..Len(grid[1]) : grid[r][c] = grid[1][1]

\* C27: for an image of constant pixel value v the Laplacian output is zero
\* everywhere, so sharpness is 0 and overall is 0.3 * (1 - 2|v/255 - 0.5|),
\* reported to 4 places; for v = 127 brightness is 0.498.
C27_ConstantImageQuality ==
    (unit # None /\ IsSome(unit.quality) /\ ConstantImage(unit.img_array)) =>
        LET v == unit.img_array[1][1]
            lap == Val(unit.lap)
            twice_deviation == IF 2 * v >= 255 THEN 2 * v - 255 ELSE 255 - 2 * v
        IN /\ \A r \in 1..Len(lap) : \A c \in 1..Len(lap[1]) : lap[r][c] = 0
           /\ Val(unit.quality).sharpness = 0
           /\ Val(unit.quality).overall =
                  (2 * 3000 * (255 - twice_deviation) + 255) \div (2 * 255)
           /\ v = 127 => Val(unit.quality).brightness = 4980

\* C27 witness: a 1x3 image of mid grey 127 has been scored: brightness
\* 0.4980, sharpness 0, overall 0.2988.
C27_Witness ==
    /\ unit # None
    /\ unit.img_array = << <<127, 127, 127>> >>
    /\ unit.quality = Some([brightness |-> 4980, sharpness |-> 0, overall |-> 2988])

\* ---- tracking writes, ordering and partial results ----
OkCount(p, op) ==
    Cardinality({ i \in 1..Len(run[p].log) : run[p].log[i].op = op /\ run[p].log[i].ok })
AllTrackingFailed(p) ==
    \A i \in 1..Len(run[p].log) : run[p].log[i].op = "track" => ~run[p].log[i].ok
InsertedRows(p) ==
    { d \in detections : \E i \in 1..Len(run[p].inserted) : run[p].inserted[i] = d.id }

\* C28: a failed tracking write is swallowed and never changes the outcome
\* of the run: no run is on its failure path without a failed call other
\* than a tracking write, and a run whose tracking writes all failed while
\* every other call succeeded has made every durable write (the upsert, one
\* detection row per box, the 'completed' update) and returned 200.
C28_TrackingFailureSwallowed ==
    \A p \in Procs :
        /\ IsSome(run[p].err) =>
              \E i \in 1..Len(run[p].log) :
                  run[p].log[i].op # "track" /\ ~run[p].log[i].ok
        /\ (Returned(p) /\ NoCallFailedButTracking(p) /\ AllTrackingFailed(p)) =>
              /\ run[p].statusCode = 200
              /\ OkCount(p, "insert_image") = 1
              /\ OkCount(p, "insert_detection") = Len(run[p].detections)
              /\ Cardinality(InsertedRows(p)) = Len(run[p].detections)
              /\ OkCount(p, "update_image_status") = 1
              /\ DurableStatus(Val(run[p].image_id)) = {"completed"}

\* C28 witness: a run over at least one box returned 200 although both its
\* PROCESSING and its DETECTION_COMPLETE write failed, leaving no tracking
\* item for the key.
C28_Witness ==
    \E p \in Procs :
        /\ Returned(p) /\ run[p].statusCode = 200
        /\ Count(p, "track") = 2 /\ AllTrackingFailed(p)
        /\ Len(run[p].detections) >= 1
        /\ tracking[run[p].s3_key] = None
        /\ DurableStatus(Val(run[p].image_id)) = {"completed"}

\* C29: DETECTION_COMPLETE is written only after the durable 'completed'
\* update has committed and after every detection insert has committed; a
\* run whose 'completed' update failed never writes DETECTION_COMPLETE.
C29_CompleteOnlyAfterDurableCommit ==
    \A p \in Procs :
        /\ \A j \in 1..Len(run[p].log) :
              (run[p].log[j].op = "track" /\ run[p].log[j].arg = "DETECTION_COMPLETE") =>
                  /\ \E i \in 1..(j - 1) :
                        /\ run[p].log[i].op = "update_image_status"
                        /\ run[p].log[i].arg = "completed"
                        /\ run[p].log[i].ok
                  /\ Cardinality({ i \in 1..(j - 1) :
                         run[p].log[i].op = "insert_detection" /\ run[p].log[i].ok })
                       = Len(run[p].detections)
                  /\ Cardinality(InsertedRows(p)) = Len(run[p].detections)
                  /\ DurableStatus(Val(run[p].image_id)) = {"completed"}
        /\ (\E i \in 1..Len(run[p].log) :
                /\ run[p].log[i].op = "update_image_status"
                /\ run[p].log[i].arg = "update_image_status failed"
                /\ ~run[p].log[i].ok)
              => ~Wrote(p, "track", "DETECTION_COMPLETE")

\* C29 witness: a run over two boxes has written DETECTION_COMPLETE to the
\* tracking store.
C29_Witness ==
    \E p \in Procs :
        /\ Returned(p)
        /\ Len(run[p].detections) = 2
        /\ WroteOk(p, "track", "DETECTION_COMPLETE")
        /\ TrackingStatus(run[p].s3_key) = "DETECTION_COMPLETE"

\* C30: when a run fails after it committed the rows of earlier boxes, those
\* detection rows and the species rows they refer to are still in the
\* durable store once the run has returned: no store operation of the
\* failure path undoes them.
C30_CommittedRowsSurviveFailure ==
    \A p \in Procs :
        (Returned(p) /\ IsSome(run[p].err) /\ IsSome(run[p].image_id)) =>
            /\ Len(run[p].inserted) = run[p].idx - 1
            /\ \A i \in 1..Len(run[p].inserted) :
                  \E d \in detections :
                      /\ d.id = run[p].inserted[i]
                      /\ d.image_id = Val(run[p].image_id)
                      /\ ProvOf(d).box = i /\ ProvOf(d).run = runs
                      /\ IsSome(d.species_id) =>
                            \E s \in species : s.id = Val(d.species_id)

\* C30 witness: a run over two boxes failed at the second one and marked the
\* image failed; the classified row of the first box and its species row
\* are still there.
C30_Witness ==
    \E p \in Procs :
        /\ Returned(p) /\ run[p].statusCode = 500
        /\ Len(run[p].detections) = 2 /\ run[p].idx = 2
        /\ Len(run[p].inserted) = 1
        /\ DurableStatus(Val(run[p].image_id)) = {"failed"}
        /\ \E d \in detections :
              /\ d.id = run[p].inserted[1]
              /\ \E s \in species : Some(s.id) = d.species_id

\* ---- status, error message and stored content ----
\* C31: in every state of the durable store an image row with status
\* 'completed' or 'processing' has no error message and a row with status
\* 'failed' has one; so a run that completes an image an earlier run left
\* failed clears that run's message.
C31_ErrorMessageMatchesStatus ==
    \A r \in images :
        /\ r.processing_status \in {"processing", "completed", "failed"}
        /\ r.processing_status \in {"processing", "completed"} =>
              r.error_message = None
        /\ r.processing_status = "failed" => IsSome(r.error_message)

\* C31 witness: the second delivery of a key has completed the image.  The
\* first delivery stored a detection row and then failed, marking the image
\* failed: its DETECTION_FAILED item, written only after that mark, is still
\* in the tracking store because the second run's tracking writes failed.
C31_Witness ==
    \E p \in Procs :
        /\ Returned(p) /\ run[p].statusCode = 200 /\ runs = 2
        /\ AllTrackingFailed(p)
        /\ TrackingStatus(run[p].s3_key) = "DETECTION_FAILED"
        /\ \E d \in detections :
              ProvOf(d).run = 1 /\ d.image_id = Val(run[p].image_id)
        /\ \E r \in images :
              /\ r.id = Val(run[p].image_id)
              /\ r.processing_status = "completed"
              /\ r.error_message = None

\* C32: the content hash and file size of an image row are those of the
\* bytes ingested by the run that created the row, and no later step of any
\* run changes them (nor the row's key); so after a run that ingested
\* different bytes at the same key the stored hash is not the hash of the
\* bytes its detections were computed from.
C32_HashIsFirstIngest ==
    [][ /\ \A r \in images :
              \E r2 \in images' :
                  /\ r2.id = r.id /\ r2.s3_key = r.s3_key
                  /\ r2.file_hash = r.file_hash /\ r2.file_size = r.file_size
        /\ \A r2 \in images' :
              (\A r \in images : r.id # r2.id) =>
                  \E p \in Procs :
                      /\ run[p].pc = "insert_image"
                      /\ r2.s3_key = run[p].s3_key
                      /\ r2.file_hash = calculate_file_hash(Val(run[p].image).data)
                      /\ r2.file_size = Len(Val(run[p].image).data) ]_vars

\* C32 witness: the second delivery of a key ingested other bytes than the
\* first and stored a detection computed from them, while the image row
\* still carries the hash and size of the first delivery's bytes.
C32_Witness ==
    \E p \in Procs :
        /\ Returned(p) /\ run[p].statusCode = 200 /\ runs = 2
        /\ InsertedRows(p) # {}
        /\ \E r \in images :
              /\ r.id = Val(run[p].image_id)
              /\ r.file_hash # calculate_file_hash(Val(run[p].image).data)
              /\ r.file_size # Len(Val(run[p].image).data)
              /\ \E u \in upserts :
                    u.s3_key = run[p].s3_key /\ u.id = r.id /\ u.file_hash = r.file_hash

====
